---------------------------- MODULE Spec2Model ----------------------------
(***************************************************************************)
(* The chunked downloader of celestial-bootstrap-next                      *)
(* (src/src/utils/download.rs): download_parallelly and                    *)
(* download_single_thread, as a state machine.                             *)
(*                                                                         *)
(* One call of download_parallelly is modelled.  The calling task walks    *)
(* through the positions of the function body (pc); every chunk fetcher    *)
(* spawned with tokio::spawn is a process of its own (fetchers[i]).        *)
(*                                                                         *)
(* Bytes are modelled by their identity: a segment <<lo, hi>> stands for   *)
(* the bytes lo..hi of the remote resource, in order.  Bytes that are not  *)
(* bytes of the resource (an error page sent with a non-success status,    *)
(* what the destination held before the call) are segments of negative     *)
(* numbers.  A file is a sequence of segments.                             *)
(***************************************************************************)
EXTENDS Integers, Sequences, FiniteSets, TLC

\* ------------------------------------------------------------------ bounds
\* The parallel path of the full specification is explored for
\* total_size = 5120 + MaxOver.
MaxOver == 1
\* Requested concurrency in 1 .. MaxConcurrency (plus one huge value).
MaxConcurrency == 1
\* max_retries in 0 .. MaxRetries.
MaxRetries == 3
\* A response body arrives in at most MaxPieces buffers.
MaxPieces == 2
\* The planner alone (PlanSpec) is explored for more sizes and concurrencies.
PlanMaxOver == 6
PlanMaxConcurrency == 7
\* Calls made one after the other with the same destination handle.
MaxCalls == 2
\* build/libs holds at most MaxEntries entries.
MaxEntries == 3
\* The jar-locating loop is followed for at most MaxVisits visits of an entry.
MaxVisits == 3

\* ------------------------------------------------------- program constants
\* download.rs:64  `if total_size <= 5120`
SingleThreadThreshold == 5120
\* download.rs:104 `mpsc::channel(20)`
ChannelCapacity == 20
\* usize::MAX, the value 0usize - 1 wraps to when overflow checks are off
\* (download.rs:81).  TLC's integers are 32 bits wide, so the largest of them
\* stands for it; the model only compares it with total_size.
UsizeMax == 2147483647

\* ----------------------------------------------------------------- bytes
\* The body a server sends with a non-success status (416, 404, 503 ...).
ErrorPage == <<-1, -1>>
\* What the destination may hold before the call.
OldBytes == <<-2, -2>>

SegLen(seg) == seg[2] - seg[1] + 1

\* The byte sequence of a file, with adjacent segments that continue each
\* other merged: two files hold the same bytes iff their Norm is equal.
RECURSIVE Norm(_)
Norm(f) ==
    IF Len(f) <= 1 THEN f
    ELSE LET rest == Norm(Tail(f))
             a == Head(f)
             b == Head(rest)
         IN IF b[1] = a[2] + 1
            THEN <<(<<a[1], b[2]>>)>> \o Tail(rest)
            ELSE <<a>> \o rest

\* The span lo..hi cut into n consecutive pieces (the buffers of a stream).
RECURSIVE Split(_, _, _)
Split(lo, hi, n) ==
    IF hi < lo THEN <<>>
    ELSE IF n <= 1 \/ hi = lo THEN <<(<<lo, hi>>)>>
    ELSE LET m == lo + ((hi - lo + 1) \div n) - 1
             cut == IF m < lo THEN lo ELSE m
         IN <<(<<lo, cut>>)>> \o Split(cut + 1, hi, n - 1)


\* ------------------------------------------------------------- hash values
\* The digest of a byte sequence.  The hasher is an external collaborator
\* (`Hash::create_hasher`, `update`, `finalize`); a cryptographic digest is
\* modelled as collision free: equal digests iff equal byte sequences,
\* however the bytes were cut into `update` calls.
Digest(fed) == Norm(fed)

\* expected_file_hash: None, the digest of the resource, or a digest the
\* resource does not have ("deadbeef...").
ExpectedHashes == {"none", "good", "bad"}
BadDigest == <<(<<-9, -9>>)>>

\* ---------------------------------------------------------------- state
VARIABLES
    total_size,        \* the resource's length in bytes
    has_length,        \* the HEAD response carries a parseable Content-Length
    concurrency,       \* parameter `concurrency`
    max_retries,       \* parameter `max_retries`
    expected,          \* parameter `expected_file_hash` (an ExpectedHashes)
    file0,             \* what `file` held when the call started
    calls,             \* calls made with this destination handle so far
    file,              \* the destination: the bytes of `file`, cursor at the end
    pc,                \* position of the calling task
    heads,             \* HEAD requests sent by this call
    result,            \* what the call returned
    effective,         \* `concurrency` after download.rs:69-73
    single_chunk_max_size,
    counter,           \* planning loop counter
    chunk_ranges,      \* the plan: a sequence of <<start, end>>
    spawned,           \* fetcher tasks spawned so far
    fetchers,          \* fetchers[i]: the task of chunk i-1
    range_headers,     \* the Range headers sent, as a set of <<start, end>>
    chan,              \* the mpsc channel's buffer
    completed_tasks,   \* Vec of received completions
    abandoned,         \* a failed attempt has left its temporary file on disk
    hasher,            \* the running hasher of the path in use
    retry_count,       \* attempts begun by download_single_thread
    gets,              \* GET requests without a Range header sent
    stream,            \* the rest of the single-stream response body
    which,             \* the function locating the built jar, or "none"
    build_libs,        \* build/libs: its entries in the order read_dir gives
    dir_stream,        \* what the ReadDirStream of build_with_gradle has left
    emitted_jar,       \* the entry at emitted_jar_path, or <<>>
    jar_pc,            \* position of the jar-locating loop
    visits             \* visits[name]: times the loop body ran for the entry

vars == <<total_size, has_length, concurrency, max_retries, expected, file0,
          calls, file, pc, heads, result, effective, single_chunk_max_size,
          counter, chunk_ranges, spawned, fetchers, range_headers, chan,
          completed_tasks, abandoned, hasher, retry_count, gets, stream,
          which, build_libs, dir_stream, emitted_jar, jar_pc, visits>>

inputs == <<total_size, has_length, concurrency, max_retries, expected, file0,
            calls>>
planVars == <<effective, single_chunk_max_size, counter, chunk_ranges>>
taskVars == <<spawned, fetchers, range_headers, chan, completed_tasks,
              abandoned>>
singleVars == <<retry_count, gets, stream>>
jarVars == <<which, build_libs, dir_stream, emitted_jar, jar_pc, visits>>

\* The resource itself, and the digest `expected` stands for.
Source == <<(<<0, total_size - 1>>)>>
ExpectedDigest == IF expected = "good" THEN Digest(Source) ELSE BadDigest

NoResult == [tag |-> "none", expected_hash |-> <<>>, actual_hash |-> <<>>,
             max_retries |-> -1]
Ok == [NoResult EXCEPT !.tag = "Ok"]
Failure(tag) == [NoResult EXCEPT !.tag = tag]
\* DownloadError::Hashing(HashingError::HashNotMatch { expected_hash, actual_hash })
HashNotMatch(e, a) ==
    [NoResult EXCEPT !.tag = "HashNotMatch", !.expected_hash = e,
                     !.actual_hash = a]
\* DownloadError::MaxRetriesExceeded { url, max_retries }
MaxRetriesExceeded(n) ==
    [NoResult EXCEPT !.tag = "MaxRetriesExceeded", !.max_retries = n]

NoHasher == [on |-> FALSE, fed |-> <<>>]
\* `hash.create_hasher()` when a hash is expected
CreateHasher == [on |-> expected # "none", fed |-> <<>>]
\* `hasher.update(&chunk)` when there is a hasher
Update(h, bytes) == IF h.on THEN [h EXCEPT !.fed = @ \o bytes] ELSE h

\* --------------------------------------------------------------- inputs
\* A length below the threshold, the threshold itself and a length above it.
Sizes ==
    {SingleThreadThreshold - 1, SingleThreadThreshold,
     SingleThreadThreshold + MaxOver}
\* A concurrency so large that half of it still exceeds every size explored.
HugeConcurrency == 2 * (SingleThreadThreshold + MaxOver) + 2
Concurrencies == (1 .. MaxConcurrency) \cup {HugeConcurrency}

\* File names, as the pieces the substring test can tell apart.
FileNames ==
    { <<"celestial", "-fatjar", ".jar">>,
      <<"celestial", ".jar">>,
      <<"celestial", "-sources", ".jar">> }
\* `file_name.contains(pattern)`
Contains(file_name, pattern) ==
    \E k \in 1 .. Len(file_name) : file_name[k] = pattern
\* No jar is being located.
NoJarSearch ==
    /\ which = "none"
    /\ build_libs = <<>>
    /\ dir_stream = <<>>
    /\ emitted_jar = <<>>
    /\ jar_pc = "idle"
    /\ visits = [n \in FileNames |-> 0]

Start(p) ==
    /\ calls = 1
    /\ file = file0
    /\ pc = p
    /\ heads = IF p = "dispatch" THEN 1 ELSE 0
    /\ result = NoResult
    /\ effective = 0
    /\ single_chunk_max_size = 0
    /\ counter = 0
    /\ chunk_ranges = <<>>
    /\ spawned = 0
    /\ fetchers = <<>>
    /\ range_headers = {}
    /\ chan = <<>>
    /\ completed_tasks = <<>>
    /\ abandoned = FALSE
    /\ hasher = NoHasher
    /\ retry_count = 0
    /\ gets = 0
    /\ stream = <<>>

Init ==
    /\ total_size \in Sizes
    /\ has_length \in BOOLEAN
    /\ concurrency \in Concurrencies
    /\ max_retries \in 0 .. MaxRetries
    /\ expected \in ExpectedHashes
    /\ file0 \in {<<>>, <<OldBytes>>}
    /\ Start("head")
    /\ NoJarSearch

\* ------------------------------------------------------ probe and dispatch
Return(r) == pc' = "returned" /\ result' = r

\* A variant of HeadProbe: a probe that fails with a transport error is
\* sent again, up to max_retries probes.
HeadProbeRetrying ==
    /\ pc = "head"
    /\ heads' = heads + 1
    /\ \/ /\ IF heads + 1 < max_retries
             THEN UNCHANGED <<pc, result>>
             ELSE Return(Failure("Http"))
          /\ UNCHANGED effective
       \/ pc' = "dispatch" /\ UNCHANGED <<result, effective>>
    /\ UNCHANGED <<inputs, jarVars, file, single_chunk_max_size, counter,
                   chunk_ranges, taskVars, hasher, singleVars>>

\* download.rs:52  `client.head(url).send().await?`
\* A transport error returns at once; otherwise the probe is answered.
HeadProbe ==
    /\ pc = "head"
    /\ heads' = heads + 1
    /\ \/ Return(Failure("Http")) /\ UNCHANGED effective
       \/ pc' = "dispatch" /\ UNCHANGED <<result, effective>>
    /\ UNCHANGED <<inputs, jarVars, file, single_chunk_max_size, counter,
                   chunk_ranges, taskVars, hasher, singleVars>>

\* A variant of TakesSingleThread: `<` for `<=`.
TakesSingleThreadBelow == ~has_length \/ total_size < SingleThreadThreshold

\* download.rs:59-67: the single-stream path is taken when the length is
\* unknown or at most 5120.
TakesSingleThread == ~has_length \/ total_size <= SingleThreadThreshold

\* download.rs:69-73
EffectiveConcurrency ==
    IF concurrency >= total_size THEN concurrency \div 2 ELSE concurrency

\* download.rs:59-78
Dispatch ==
    /\ pc = "dispatch"
    /\ IF TakesSingleThread
       THEN /\ pc' = "single"
            /\ UNCHANGED <<effective, single_chunk_max_size>>
       ELSE /\ pc' = "plan"
            /\ effective' = EffectiveConcurrency
            /\ single_chunk_max_size' = total_size \div EffectiveConcurrency
    /\ UNCHANGED <<inputs, jarVars, heads, file, result, counter, chunk_ranges, taskVars,
                   hasher, singleVars>>

\* A variant of ChunkStart: offsets counted from 1.
ChunkStartFromOne == counter * single_chunk_max_size + 1

\* download.rs:80-89: the range of iteration `counter`.  TentativeEnd is
\* `(counter + 1) * single_chunk_max_size - 1`, wrapped when it underflows.
ChunkStart == counter * single_chunk_max_size
Underflows == (counter + 1) * single_chunk_max_size = 0
TentativeEnd ==
    IF Underflows THEN UsizeMax ELSE (counter + 1) * single_chunk_max_size - 1
ChunkEnd == IF total_size > TentativeEnd THEN TentativeEnd ELSE total_size

\* download.rs:79-99, one iteration of the planning loop.  When the tentative
\* end underflows, a build with overflow checks panics and a build without
\* them wraps.
PlanLoop ==
    /\ pc = "plan"
    /\ \/ /\ chunk_ranges' = Append(chunk_ranges, <<ChunkStart, ChunkEnd>>)
          /\ IF ChunkEnd = total_size
             THEN pc' = "spawn" /\ UNCHANGED counter
             ELSE pc' = "plan" /\ counter' = counter + 1
          /\ UNCHANGED result
       \/ /\ Underflows
          /\ pc' = "panicked"
          /\ UNCHANGED <<chunk_ranges, counter, result>>
    /\ UNCHANGED <<inputs, jarVars, heads, file, effective, single_chunk_max_size, taskVars,
                   hasher, singleVars>>


\* ------------------------------------------------------------- the server
\* The HTTP client is an external collaborator; the server honours Range
\* (RFC 7233) and reports the resource's length.  A GET is answered with a
\* success status and the bytes asked for, or with a non-success status and
\* an error page; `send()` fails only on a transport error, never on a
\* status (no error_for_status, download.rs:121-126 and :197).
Statuses == {"success", "failure"}

\* The body sent for `Range: bytes=start-end`: the bytes start ..
\* min(end, total_size - 1), or, the range being unsatisfiable
\* (start >= total_size), 416 with an error page.
RangeBody(start, end, status) ==
    IF status = "success" /\ start < total_size
    THEN Split(start, IF end < total_size THEN end ELSE total_size - 1,
               MaxPieces)
    ELSE <<ErrorPage>>

\* The body sent for a GET without Range.
PlainBody(status) ==
    IF status = "success" THEN Split(0, total_size - 1, MaxPieces)
    ELSE <<ErrorPage>>

\* ------------------------------------------------- download_single_thread
\* download.rs:194  `for retry_count in 1..=max_retries`: the attempts the
\* loop can begin.
SingleAttempts == max_retries

\* download.rs:194-199: the loop begins an attempt and sends the GET.  The
\* attempt's body is a plain block, not a closure: `?` and `return` inside
\* it leave download_single_thread itself.
SingleGet ==
    /\ pc = "single"
    /\ retry_count < SingleAttempts
    /\ retry_count' = retry_count + 1
    /\ gets' = gets + 1
    /\ \/ /\ Return(Failure("Http"))          \* `send().await?`
          /\ UNCHANGED <<stream, hasher>>
       \/ \E status \in Statuses :
             /\ stream' = PlainBody(status)
             /\ hasher' = CreateHasher        \* download.rs:199
             /\ pc' = "single_stream"
             /\ UNCHANGED result
    /\ UNCHANGED <<inputs, jarVars, heads, file, planVars, taskVars>>

\* download.rs:201-211: one buffer of the stream: it is written at the
\* cursor of `file` and fed to the hasher, or the stream (`chunk?`) or the
\* write (`write_all(..).await?`) fails and the function returns the error.
SingleChunk ==
    /\ pc = "single_stream"
    /\ stream # <<>>
    /\ \/ /\ file' = Append(file, Head(stream))
          /\ hasher' = Update(hasher, <<Head(stream)>>)
          /\ stream' = Tail(stream)
          /\ UNCHANGED <<pc, result>>
       \/ /\ \E tag \in {"Http", "Io"} : Return(Failure(tag))
          /\ UNCHANGED <<file, hasher, stream>>
    /\ UNCHANGED <<inputs, jarVars, heads, planVars, taskVars, retry_count, gets>>

\* A variant of SingleEnd: the attempt's block is a closure, so a digest that
\* differs is logged and the loop goes on to the next attempt.
SingleEndRetrying ==
    /\ pc = "single_stream"
    /\ stream = <<>>
    /\ IF hasher.on /\ Digest(hasher.fed) # ExpectedDigest
       THEN pc' = "single" /\ UNCHANGED result
       ELSE Return(Ok)
    /\ UNCHANGED <<inputs, jarVars, heads, file, planVars, taskVars, hasher, singleVars>>

\* download.rs:212-235: the stream has ended.  A digest that differs returns
\* HashNotMatch from the function; otherwise the block's value is Ok(()),
\* `result` is never an Err, and the function returns Ok(()).
SingleEnd ==
    /\ pc = "single_stream"
    /\ stream = <<>>
    /\ IF hasher.on /\ Digest(hasher.fed) # ExpectedDigest
       THEN Return(HashNotMatch(ExpectedDigest, Digest(hasher.fed)))
       ELSE Return(Ok)
    /\ UNCHANGED <<inputs, jarVars, heads, file, planVars, taskVars, hasher, singleVars>>

\* download.rs:237-246: the loop ran out of attempts.
SingleExhausted ==
    /\ pc = "single"
    /\ retry_count >= SingleAttempts
    /\ Return(MaxRetriesExceeded(max_retries))
    /\ UNCHANGED <<inputs, jarVars, heads, file, planVars, taskVars, hasher, singleVars>>

\* download.rs:43-50: the caller, having got Ok(()) for a transfer whose
\* destination now has the expected digest, runs the same transfer again
\* with the same arguments and the same `file` handle.  The handle is as the
\* first call left it: the bytes written, the cursor after them.
CallAgain ==
    /\ pc = "returned"
    /\ result = Ok
    /\ expected = "good"
    /\ Digest(file) = ExpectedDigest
    /\ calls < MaxCalls
    /\ calls' = calls + 1
    /\ file0' = file
    /\ pc' = "head"
    /\ heads' = 0
    /\ result' = NoResult
    /\ hasher' = NoHasher
    /\ retry_count' = 0
    /\ gets' = 0
    /\ stream' = <<>>
    /\ UNCHANGED <<total_size, has_length, concurrency, max_retries, expected,
                   file, planVars, taskVars, jarVars>>


\* ---------------------------------------------------------- file handles
\* A tokio File: the bytes of the file and the cursor of the handle, in
\* bytes.  A write puts the bytes at the cursor and moves it past them; a
\* read starts at the cursor.
NewTempFile == [data |-> <<>>, cursor |-> 0]

\* `write_all` on a handle whose cursor is at the end of the file.
WriteAll(h, seg) ==
    [data |-> Append(h.data, seg), cursor |-> h.cursor + SegLen(seg)]

\* The bytes of `data` from byte offset n on.
RECURSIVE DropBytes(_, _)
DropBytes(data, n) ==
    IF data = <<>> \/ n <= 0 THEN data
    ELSE LET a == Head(data)
         IN IF SegLen(a) <= n THEN DropBytes(Tail(data), n - SegLen(a))
            ELSE <<(<<a[1] + n, a[2]>>)>> \o Tail(data)

\* What a reader gets from a handle until end of file.
ReadToEnd(h) == DropBytes(h.data, h.cursor)

\* ---------------------------------------------------------- chunk fetchers
\* download.rs:113  `for _retry_count in 1..max_retries`: the attempts a
\* fetcher can begin (the range excludes max_retries).
FetchAttempts == IF max_retries >= 1 THEN max_retries - 1 ELSE 0

NewFetcher ==
    [pc |-> "loop", retry_count |-> 0, tmp |-> NewTempFile, left |-> <<>>]

Fetchers == 1 .. Len(fetchers)
\* The task has ended: after its completion was sent, or without one.
Finished(i) == fetchers[i].pc \in {"sent", "gave_up"}
\* fetchers[i] is the task of chunk_num i - 1.
ChunkNum(i) == i - 1

\* download.rs:107-148: the next range of the plan gets its task; after the
\* last one the calling task goes on to the receive loop.
Spawn ==
    /\ pc = "spawn"
    /\ IF spawned < Len(chunk_ranges)
       THEN /\ spawned' = spawned + 1
            /\ fetchers' = Append(fetchers, NewFetcher)
            /\ UNCHANGED pc
       ELSE /\ pc' = "recv"
            /\ UNCHANGED <<spawned, fetchers>>
    /\ UNCHANGED <<inputs, jarVars, heads, file, result, planVars, range_headers, chan,
                   completed_tasks, abandoned, hasher, singleVars>>

\* A variant of FetchBegin: the temporary file is created once per task and
\* every attempt goes on writing to it.
FetchBeginReusingFile(i) ==
    /\ fetchers[i].pc = "loop"
    /\ fetchers[i].retry_count < FetchAttempts
    /\ LET f == [fetchers[i] EXCEPT !.retry_count = @ + 1]
           range == chunk_ranges[i]
       IN \/ /\ fetchers' = [fetchers EXCEPT ![i] = f]
             /\ UNCHANGED <<range_headers, abandoned>>
          \/ /\ fetchers' = [fetchers EXCEPT ![i] = f]
             /\ abandoned' = TRUE
             /\ range_headers' = range_headers \cup {range}
          \/ \E status \in Statuses :
                /\ fetchers' = [fetchers EXCEPT ![i] =
                      [f EXCEPT !.left = RangeBody(range[1], range[2], status),
                                !.pc = "stream"]]
                /\ range_headers' = range_headers \cup {range}
                /\ UNCHANGED abandoned
    /\ UNCHANGED <<inputs, jarVars, heads, file, pc, result, planVars, spawned, chan,
                   completed_tasks, hasher, singleVars>>

\* download.rs:113-126: an attempt begins: a fresh temporary file, then the
\* ranged GET.  `tempfile().await?` or `send().await?` may fail, which ends
\* the attempt; the file of a failed attempt stays on disk.
FetchBegin(i) ==
    /\ fetchers[i].pc = "loop"
    /\ fetchers[i].retry_count < FetchAttempts
    /\ LET f == [fetchers[i] EXCEPT !.retry_count = @ + 1]
           range == chunk_ranges[i]
       IN \/ /\ fetchers' = [fetchers EXCEPT ![i] = f]
             /\ UNCHANGED <<range_headers, abandoned>>
          \/ /\ fetchers' = [fetchers EXCEPT ![i] = f]
             /\ abandoned' = TRUE
             /\ range_headers' = range_headers \cup {range}
          \/ \E status \in Statuses :
                /\ fetchers' = [fetchers EXCEPT ![i] =
                      [f EXCEPT !.tmp = NewTempFile,
                                !.left = RangeBody(range[1], range[2], status),
                                !.pc = "stream"]]
                /\ range_headers' = range_headers \cup {range}
                /\ UNCHANGED abandoned
    /\ UNCHANGED <<inputs, jarVars, heads, file, pc, result, planVars, spawned, chan,
                   completed_tasks, hasher, singleVars>>

\* A variant of FetchChunk: the task writes the buffer straight to the
\* destination instead of its temporary file.
FetchChunkToDestination(i) ==
    /\ fetchers[i].pc = "stream"
    /\ fetchers[i].left # <<>>
    /\ \/ /\ file' = Append(file, Head(fetchers[i].left))
          /\ fetchers' = [fetchers EXCEPT ![i] = [@ EXCEPT !.left = Tail(@)]]
          /\ UNCHANGED abandoned
       \/ /\ fetchers' = [fetchers EXCEPT ![i] =
                [@ EXCEPT !.pc = "loop", !.left = <<>>]]
          /\ abandoned' = TRUE
          /\ UNCHANGED file
    /\ UNCHANGED <<inputs, jarVars, heads, pc, result, planVars, spawned, range_headers,
                   chan, completed_tasks, hasher, singleVars>>

\* download.rs:129-132: one buffer of the response is written to the
\* temporary file, or the stream or the write fails and the attempt ends.
FetchChunk(i) ==
    /\ fetchers[i].pc = "stream"
    /\ fetchers[i].left # <<>>
    /\ \/ /\ fetchers' = [fetchers EXCEPT ![i] =
                [@ EXCEPT !.tmp = WriteAll(@, Head(fetchers[i].left)),
                          !.left = Tail(@)]]
          /\ UNCHANGED abandoned
       \/ /\ fetchers' = [fetchers EXCEPT ![i] =
                [@ EXCEPT !.pc = "loop", !.left = <<>>]]
          /\ abandoned' = TRUE
    /\ UNCHANGED <<inputs, jarVars, heads, file, pc, result, planVars, spawned, range_headers,
                   chan, completed_tasks, hasher, singleVars>>

\* A variant of FetchSend: no `break` after an attempt that was Ok, so the
\* task goes back to the head of its retry loop.
FetchSendWithoutBreak(i) ==
    /\ fetchers[i].pc = "stream"
    /\ fetchers[i].left = <<>>
    /\ Len(chan) < ChannelCapacity
    /\ chan' = Append(chan, [index |-> ChunkNum(i), handle |-> fetchers[i].tmp])
    /\ fetchers' = [fetchers EXCEPT ![i] = [@ EXCEPT !.pc = "loop"]]
    /\ UNCHANGED <<inputs, jarVars, heads, file, pc, result, planVars, spawned, range_headers,
                   completed_tasks, abandoned, hasher, singleVars>>

\* download.rs:136-145: the stream has ended: the completion (chunk_num,
\* handle, path) is sent, the attempt is Ok and the task ends, dropping its
\* clone of tx.  `send` waits while the channel is full.
FetchSend(i) ==
    /\ fetchers[i].pc = "stream"
    /\ fetchers[i].left = <<>>
    /\ Len(chan) < ChannelCapacity
    /\ chan' = Append(chan, [index |-> ChunkNum(i), handle |-> fetchers[i].tmp])
    /\ fetchers' = [fetchers EXCEPT ![i] = [@ EXCEPT !.pc = "sent"]]
    /\ UNCHANGED <<inputs, jarVars, heads, file, pc, result, planVars, spawned, range_headers,
                   completed_tasks, abandoned, hasher, singleVars>>

\* download.rs:113, 146-147: no attempt is left: the task ends without a
\* completion and without an error, dropping its clone of tx.
FetchGiveUp(i) ==
    /\ fetchers[i].pc = "loop"
    /\ fetchers[i].retry_count >= FetchAttempts
    /\ fetchers' = [fetchers EXCEPT ![i] = [@ EXCEPT !.pc = "gave_up"]]
    /\ UNCHANGED <<inputs, jarVars, heads, file, pc, result, planVars, spawned, range_headers,
                   chan, completed_tasks, abandoned, hasher, singleVars>>

\* ----------------------------------------------------------- reassembly
\* A variant of OriginalSenderHeld: tx is dropped before the receive loop.
OriginalSenderDropped == FALSE

\* download.rs:104-155: `tx` itself is never moved or dropped: it lives
\* until download_parallelly returns.
OriginalSenderHeld == pc \in {"spawn", "recv", "join"}

\* The Sender handles alive: tx and the clone of every task still running.
Senders ==
    (IF OriginalSenderHeld THEN 1 ELSE 0)
    + Cardinality({i \in Fetchers : ~Finished(i)})

\* A variant of ChannelClosed: the receive loop ends as soon as the buffer
\* is found empty (`try_recv` for `recv`).
ChannelClosedWhenEmpty == chan = <<>>

\* `rx.recv()` gives None when the buffer is empty and no Sender is alive.
ChannelClosed == chan = <<>> /\ Senders = 0

\* download.rs:158  `sort_by(|a, b| a.0.cmp(&b.0))` (stable)
RECURSIVE SortByIndex(_)
Insert(t, sorted) ==
    LET before == SelectSeq(sorted, LAMBDA u : u.index <= t.index)
        after == SelectSeq(sorted, LAMBDA u : u.index > t.index)
    IN before \o <<t>> \o after
SortByIndex(tasks) ==
    IF tasks = <<>> THEN <<>>
    ELSE Insert(tasks[Len(tasks)], SortByIndex(SubSeq(tasks, 1, Len(tasks) - 1)))

\* download.rs:152-160: `rx.recv().await` gives the next completion, which
\* is pushed; or None, and the loop ends, the completions are sorted and the
\* hasher is created; or it waits.
RecvStep ==
    IF chan # <<>>
    THEN /\ completed_tasks' = Append(completed_tasks, Head(chan))
         /\ chan' = Tail(chan)
         /\ UNCHANGED <<pc, hasher>>
    ELSE /\ ChannelClosed
         /\ completed_tasks' = SortByIndex(completed_tasks)
         /\ hasher' = CreateHasher
         /\ pc' = "join"
         /\ UNCHANGED chan


\* utils::stream::stream_write_and_calculate_hash(&mut reader, file, &mut
\* hasher): what the reader yields until end of file is written to `file`
\* and fed to the hasher.  The reader wraps the handle received on the
\* channel (download.rs:164), which is neither reopened nor rewound.
StreamWriteAndCalculateHash(h) ==
    /\ file' = file \o ReadToEnd(h)
    /\ hasher' = Update(hasher, ReadToEnd(h))

\* download.rs:163-184: the next completion is joined and its temporary
\* file removed; after the last one the digest is compared.
JoinStep ==
    IF completed_tasks # <<>>
    THEN LET t == Head(completed_tasks)
         IN /\ StreamWriteAndCalculateHash(t.handle)
            /\ completed_tasks' = Tail(completed_tasks)
            /\ UNCHANGED <<pc, result>>
    ELSE /\ IF hasher.on /\ Digest(hasher.fed) # ExpectedDigest
            THEN Return(HashNotMatch(ExpectedDigest, Digest(hasher.fed)))
            ELSE Return(Ok)
         /\ UNCHANGED <<file, hasher, completed_tasks>>

\* download.rs:150-184: the calling task after the spawn loop.
Reassemble ==
    /\ pc \in {"recv", "join"}
    /\ IF pc = "recv"
       THEN RecvStep /\ UNCHANGED <<file, result>>
       ELSE JoinStep /\ UNCHANGED chan
    /\ UNCHANGED <<inputs, jarVars, heads, planVars, spawned, fetchers, range_headers,
                   abandoned, singleVars>>

\* ------------------------------------------------------- specifications
Next ==
    \/ HeadProbe
    \/ Dispatch
    \/ PlanLoop
    \/ Spawn
    \/ \E i \in Fetchers : FetchBegin(i)
    \/ \E i \in Fetchers : FetchChunk(i)
    \/ \E i \in Fetchers : FetchSend(i)
    \/ \E i \in Fetchers : FetchGiveUp(i)
    \/ Reassemble
    \/ SingleGet
    \/ SingleChunk
    \/ SingleEnd
    \/ SingleExhausted
    \/ CallAgain

Spec == Init /\ [][Next]_vars

\* The planner alone, from the point where the probe has been answered, for
\* more sizes and concurrencies than the fetchers are explored with.
PlanSizes ==
    ((SingleThreadThreshold + 1) .. (SingleThreadThreshold + PlanMaxOver))
    \cup {25000 * 4}
PlanConcurrencies ==
    (1 .. PlanMaxConcurrency)
    \cup {SingleThreadThreshold + 1, 2 * (SingleThreadThreshold + PlanMaxOver) + 2}

PlanInit ==
    /\ total_size \in PlanSizes
    /\ has_length = TRUE
    /\ concurrency \in PlanConcurrencies
    /\ max_retries = 1
    /\ expected = "none"
    /\ file0 = <<>>
    /\ Start("dispatch")
    /\ NoJarSearch

PlanNext == Dispatch \/ PlanLoop

PlanSpec == PlanInit /\ [][PlanNext]_vars

\* ------------------------------------------------ locating the built jar
\* The downloader is not running while a jar is located.
downloadVars ==
    <<inputs, file, pc, heads, result, planVars, taskVars, hasher, singleVars>>

\* The directory listings explored: the entries of build/libs after the
\* Gradle build, each name once, in the order read_dir yields them.  The
\* order of an unchanged directory is the same on every read.
Listings ==
    {d \in UNION {[1 .. n -> FileNames] : n \in 0 .. MaxEntries} :
        \A k, l \in 1 .. Len(d) : d[k] = d[l] => k = l}

\* main.rs:183-194 and gradle.rs:200-214: the entry is moved to
\* emitted_jar_path, replacing what was there, and the loop breaks; any of
\* the file operations may fail, which returns the error.
MoveJar(entry) ==
    \/ /\ emitted_jar' = entry
       /\ build_libs' = SelectSeq(build_libs, LAMBDA e : e # entry)
       /\ jar_pc' = "done"
    \/ /\ jar_pc' = "failed"
       /\ UNCHANGED <<emitted_jar, build_libs>>

\* main.rs:177-196, one evaluation of the `while let` of
\* check_update_for_celestial: read_dir is called anew and the first entry
\* of that new listing is taken.
CheckUpdateLoop ==
    /\ which = "check_update_for_celestial"
    /\ jar_pc = "loop"
    /\ \/ /\ jar_pc' = "failed"                 \* read_dir or next_entry `?`
          /\ UNCHANGED <<build_libs, emitted_jar, visits>>
       \/ /\ build_libs = <<>>                   \* None: the loop ends
          /\ jar_pc' = "done"
          /\ UNCHANGED <<build_libs, emitted_jar, visits>>
       \/ /\ build_libs # <<>>
          /\ LET entry == Head(build_libs)
             IN /\ visits[entry] < MaxVisits
                /\ visits' = [visits EXCEPT ![entry] = @ + 1]
                /\ IF Contains(entry, "-fatjar")
                   THEN MoveJar(entry)
                   ELSE UNCHANGED <<jar_pc, build_libs, emitted_jar>>
    /\ UNCHANGED <<downloadVars, which, dir_stream>>

\* gradle.rs:198-216, one evaluation of the `while let` of
\* build_with_gradle: the next entry of the one ReadDirStream is taken.
BuildWithGradleLoop ==
    /\ which = "build_with_gradle"
    /\ jar_pc = "loop"
    /\ \/ /\ jar_pc' = "failed"                 \* `file?`
          /\ UNCHANGED <<build_libs, emitted_jar, visits, dir_stream>>
       \/ /\ dir_stream = <<>>                   \* None: the loop ends
          /\ jar_pc' = "done"
          /\ UNCHANGED <<build_libs, emitted_jar, visits, dir_stream>>
       \/ /\ dir_stream # <<>>
          /\ LET entry == Head(dir_stream)
             IN /\ visits[entry] < MaxVisits
                /\ visits' = [visits EXCEPT ![entry] = @ + 1]
                /\ dir_stream' = Tail(dir_stream)
                /\ IF Contains(entry, "-fatjar")
                   THEN MoveJar(entry)
                   ELSE UNCHANGED <<jar_pc, build_libs, emitted_jar>>
    /\ UNCHANGED <<downloadVars, which>>

\* The Gradle build has ended and build/libs is about to be searched.
JarInit ==
    /\ total_size = SingleThreadThreshold
    /\ has_length = FALSE
    /\ concurrency = 1
    /\ max_retries = 0
    /\ expected = "none"
    /\ file0 = <<>>
    /\ Start("idle")
    /\ which \in {"check_update_for_celestial", "build_with_gradle"}
    /\ build_libs \in Listings
    /\ dir_stream = IF which = "build_with_gradle" THEN build_libs ELSE <<>>
    /\ emitted_jar \in {<<>>, <<"celestial", "-old", ".jar">>}
    /\ jar_pc = "loop"
    /\ visits = [n \in FileNames |-> 0]

JarNext == CheckUpdateLoop \/ BuildWithGradleLoop

JarSpec == JarInit /\ [][JarNext]_vars


\* ---------------------------------------------------------------- claims
\* The call took the parallel path and every task of the plan has ended.
AllFetchersFinished ==
    /\ pc \notin {"head", "dispatch", "plan", "panicked", "spawn"}
    /\ fetchers # <<>>
    /\ \A i \in Fetchers : Finished(i)

\* C1: when the fetcher of some planned chunk has used up its attempts
\* without sending a completion, the call has not returned Ok(()), with an
\* expected hash and without one.
C1_LostChunkNeverOk ==
    (\E i \in Fetchers : fetchers[i].pc = "gave_up") => result.tag # "Ok"

\* The case of C1: with no hash expected, one fetcher has failed an attempt
\* and given up, every other chunk was delivered, and the calling task has
\* received all there is to receive.
C1_Witness ==
    /\ expected = "none"
    /\ pc = "recv"
    /\ chan = <<>>
    /\ \E i \in Fetchers :
          /\ fetchers[i].pc = "gave_up"
          /\ fetchers[i].retry_count >= 1
          /\ \A j \in Fetchers \ {i} : fetchers[j].pc = "sent"
    /\ Len(completed_tasks) = Len(fetchers) - 1

\* C2: on the parallel path, once every spawned fetcher has finished, the
\* receive loop ends and the call returns: the call has returned or it can
\* still take a step.
C2_ReturnsOnceFetchersFinished ==
    AllFetchersFinished => (pc = "returned" \/ ENABLED Next)


\* The planning loop has ended with a plan.
PlanComplete == chunk_ranges # <<>> /\ pc # "plan"

RangeSize(r) == r[2] - r[1] + 1

\* C4: the planned ranges, read as the inclusive spans of the Range header,
\* start at byte 0, each start is the previous end + 1 with start <= end (so
\* they are disjoint and ascending), and the last one ends at byte
\* total_size - 1: their union is exactly the resource.
C4_PlanCoversResourceExactly ==
    PlanComplete =>
        /\ chunk_ranges[1][1] = 0
        /\ \A k \in 1 .. Len(chunk_ranges) :
              /\ chunk_ranges[k][1] <= chunk_ranges[k][2]
              /\ k > 1 => chunk_ranges[k][1] = chunk_ranges[k - 1][2] + 1
        /\ chunk_ranges[Len(chunk_ranges)][2] = total_size - 1

\* C5: the plan has exactly `effective` ranges, all but the last of
\* single_chunk_max_size bytes, the last one taking the remainder; for
\* total_size = 100000 and concurrency = 4 it has 4 ranges of 25000 bytes.
C5_PlanHasEffectiveConcurrencyRanges ==
    PlanComplete =>
        /\ Len(chunk_ranges) = effective
        /\ \A k \in 1 .. Len(chunk_ranges) - 1 :
              RangeSize(chunk_ranges[k]) = single_chunk_max_size
        /\ RangeSize(chunk_ranges[Len(chunk_ranges)])
              = total_size - (effective - 1) * single_chunk_max_size
        /\ (total_size = 25000 * 4 /\ concurrency = 4) =>
              /\ Len(chunk_ranges) = 4
              /\ \A k \in 1 .. Len(chunk_ranges) :
                    RangeSize(chunk_ranges[k]) = 25000

\* C6: when the call has returned Ok(()) and a hash was expected, the digest
\* of the whole destination file is the expected digest.
C6_OkMeansFileDigestMatches ==
    (result.tag = "Ok" /\ expected # "none") => Digest(file) = ExpectedDigest

\* C8: when the probe gives no parseable Content-Length or a length <= 5120,
\* there is no plan, no fetcher task and no Range request, and once the
\* plain GET has been answered and for as long as the call goes on to Ok(()),
\* exactly one GET has been sent.
C8_SmallOrUnknownIsSingleStream ==
    (~has_length \/ total_size <= SingleThreadThreshold) =>
        /\ chunk_ranges = <<>>
        /\ spawned = 0
        /\ fetchers = <<>>
        /\ range_headers = {}
        /\ (pc = "single_stream" \/ result.tag = "Ok") => gets = 1

\* The case of C8: a resource of exactly 5120 bytes with its length known
\* has been downloaded by the single GET.
C8_Witness ==
    /\ has_length
    /\ total_size = SingleThreadThreshold
    /\ result.tag = "Ok"
    /\ gets = 1
    /\ Norm(file) = Norm(file0 \o Source)

\* The digest is about to be compared and differs from the expected one.
MismatchDetected ==
    /\ hasher.on
    /\ Digest(hasher.fed) # ExpectedDigest
    /\ \/ pc = "single_stream" /\ stream = <<>>
       \/ pc = "join" /\ completed_tasks = <<>>

\* C9: when the digest over the written bytes differs from the expected
\* one, the call returns HashNotMatch carrying the expected and the actual
\* digest, and the destination keeps the bytes written to it: it is not
\* changed by the return and holds what it held before the call followed by
\* the bytes that were hashed.
C9_MismatchIsReportedAndFileKept ==
    /\ [][MismatchDetected =>
            /\ pc' = "returned"
            /\ result' = HashNotMatch(ExpectedDigest, Digest(hasher.fed))
            /\ file' = file]_vars
    /\ [](result.tag = "HashNotMatch" =>
            /\ result.expected_hash # result.actual_hash
            /\ Norm(file) = Norm(file0 \o hasher.fed))

\* The case of C9: a mismatch was returned after bytes had been written.
C9_Witness ==
    /\ result.tag = "HashNotMatch"
    /\ result.expected_hash = ExpectedDigest
    /\ result.actual_hash = Digest(hasher.fed)
    /\ hasher.fed # <<>>
    /\ file # file0

\* C10: a fetcher that gives up has made exactly max_retries attempts, and
\* with max_retries = 1 every chunk has been attempted once when its task
\* ends.
C10_FetcherMakesMaxRetriesAttempts ==
    \A i \in Fetchers :
        /\ fetchers[i].pc = "gave_up" => fetchers[i].retry_count = max_retries
        /\ (max_retries = 1 /\ Finished(i)) => fetchers[i].retry_count = 1

\* C11: in download_single_thread an attempt that fails with a transport
\* error or a digest mismatch is followed by a new GET as long as fewer than
\* max_retries attempts were made: the call returns such a failure only
\* after max_retries GETs, and never sends more than max_retries GETs.
C11_FailedAttemptIsRetried ==
    /\ gets <= max_retries
    /\ (gets >= 1 /\ result.tag \in {"Http", "HashNotMatch"}) =>
           gets = max_retries

\* C12: when download_single_thread has made all max_retries attempts and
\* every one of them failed, the call returns MaxRetriesExceeded carrying
\* max_retries, not the error of an attempt.
C12_AllAttemptsFailedIsMaxRetriesExceeded ==
    (pc = "returned" /\ gets >= 1 /\ gets = max_retries /\ result.tag # "Ok")
        => result = MaxRetriesExceeded(max_retries)

\* C13: when the same transfer is run a second time on the same destination
\* handle after a first verified success, a call that returns Ok(()) again
\* leaves the destination with the expected digest.
C13_SecondRunKeepsDigest ==
    (calls >= 2 /\ result.tag = "Ok") => Digest(file) = ExpectedDigest

\* C15: only the calling task writes the destination and advances the
\* running hash: a step of a fetcher task leaves both as they are, and it
\* changes the temporary file of that one task only.
C15_FetchersWriteOnlyTheirTempFile ==
    [][fetchers' # fetchers =>
          /\ file' = file
          /\ hasher' = hasher
          /\ Cardinality({i \in Fetchers :
                             fetchers'[i].tmp # fetchers[i].tmp}) <= 1]_vars

\* The case of C15: two fetcher tasks have each written a response into
\* their temporary file and the destination is as the call found it.
C15_Witness ==
    /\ Len(fetchers) >= 2
    /\ \A i \in Fetchers : fetchers[i].tmp.data # <<>>
    /\ file = file0
    /\ hasher = NoHasher

\* C16: on the parallel path, until the receive loop has ended the
\* destination holds what the call found and no hasher has been fed: the
\* completions received are only buffered.  While some fetcher task has not
\* finished, the loop has not ended and the call has not returned.
C16_NothingJoinedBeforeReceiveLoopEnds ==
    /\ pc \in {"spawn", "recv"} => (file = file0 /\ hasher = NoHasher)
    /\ (\E i \in Fetchers : ~Finished(i)) => pc \in {"spawn", "recv"}

\* The case of C16: a completion has been received and buffered while
\* another fetcher task is still running.
C16_Witness ==
    /\ pc = "recv"
    /\ completed_tasks # <<>>
    /\ \E i \in Fetchers : ~Finished(i)
    /\ file = file0

\* C18: the body of a GET answered with a non-success HTTP status is never
\* written to the destination, never fed to the hasher and never in the
\* temporary file of a completion that was sent.
C18_ErrorBodyNeverStored ==
    LET HasErrorPage(data) == \E k \in 1 .. Len(data) : data[k] = ErrorPage
    IN /\ ~HasErrorPage(file)
       /\ ~HasErrorPage(hasher.fed)
       /\ \A k \in 1 .. Len(chan) : ~HasErrorPage(chan[k].handle.data)
       /\ \A k \in 1 .. Len(completed_tasks) :
             ~HasErrorPage(completed_tasks[k].handle.data)

\* C19: for every total_size > 5120 and concurrency >= 1 the effective
\* concurrency and the chunk size are both at least 1 while the plan is
\* made, so the tentative end never underflows and the planner never
\* panics.
C19_PlannerArithmeticIsSafe ==
    /\ pc = "plan" =>
          (effective >= 1 /\ single_chunk_max_size >= 1 /\ ~Underflows)
    /\ pc # "panicked"

\* C20: every range the planner emits starts no later than it ends, and
\* the k-th range (counted from 0) starts at k times the chunk size.  The
\* loop stops exactly when the range just emitted ends at total_size, so
\* the last range of a plan ends at total_size, and once the loop has
\* stopped it is not entered again: no range is emitted after that one.
C20_PlanRangesAreOrderedAndEndAtTotalSize ==
    [][/\ chunk_ranges' # chunk_ranges =>
             LET k == Len(chunk_ranges')
                 r == chunk_ranges'[k]
             IN /\ pc = "plan"
                /\ chunk_ranges' = Append(chunk_ranges, r)
                /\ r[1] <= r[2]
                /\ r[1] = (k - 1) * single_chunk_max_size
                /\ (r[2] = total_size) <=> (pc' # "plan")
       /\ pc \notin {"dispatch", "plan"} => pc' # "plan"]_vars

\* The case of C20: the planning loop has stopped after several ranges, the
\* last of which ends at total_size.
C20_Witness ==
    /\ pc = "spawn"
    /\ Len(chunk_ranges) >= 3
    /\ chunk_ranges[Len(chunk_ranges)][2] = total_size
    /\ chunk_ranges[2][1] = single_chunk_max_size

\* C22: the temporary file of an attempt holds the bytes of that attempt's
\* response only: while the response is streamed, the file and what is left
\* of the stream make up the response, and the file handed over in a
\* completion is the response of the attempt that sent it, with nothing of
\* an earlier failed attempt of the chunk before it.
C22_CompletionHoldsOneAttemptsBytes ==
    /\ \A i \in Fetchers :
          fetchers[i].pc = "stream" =>
             \E status \in Statuses :
                fetchers[i].tmp.data \o fetchers[i].left
                   = RangeBody(chunk_ranges[i][1], chunk_ranges[i][2], status)
    /\ LET sent == chan \o completed_tasks
       IN \A k \in 1 .. Len(sent) :
             \E status \in Statuses :
                sent[k].handle.data
                   = RangeBody(chunk_ranges[sent[k].index + 1][1],
                               chunk_ranges[sent[k].index + 1][2], status)

\* The case of C22: a completion was sent by a task whose first attempt
\* failed and left its temporary file behind.
C22_Witness ==
    /\ abandoned
    /\ \E i \in Fetchers :
          /\ fetchers[i].pc = "sent"
          /\ fetchers[i].retry_count >= 2
          /\ fetchers[i].tmp.data # <<>>
          /\ \E k \in 1 .. Len(completed_tasks) :
                completed_tasks[k].index = ChunkNum(i)

\* C23: among the completions sent so far, those still in the channel and
\* those already received, no chunk index occurs twice, every index is in
\* 0 .. N-1 for a plan of N ranges, and there are at most N of them; the
\* list the receive loop collects has these properties as well.
C23_CompletionIndexesAreUniqueAndInRange ==
    LET sent == completed_tasks \o chan
        N == Len(chunk_ranges)
    IN /\ \A k \in 1 .. Len(sent) : sent[k].index \in 0 .. N - 1
       /\ \A k, l \in 1 .. Len(sent) : sent[k].index = sent[l].index => k = l
       /\ Len(sent) <= N
       /\ Len(completed_tasks) <= N

\* The case of C23: every task of a plan of several ranges has sent its
\* completion and the receive loop has collected them all.
C23_Witness ==
    /\ pc = "recv"
    /\ Len(chunk_ranges) >= 2
    /\ Len(completed_tasks) = Len(chunk_ranges)
    /\ \A i \in Fetchers : fetchers[i].pc = "sent"

\* C24: the HEAD probe is sent once per call and never again, and when the
\* call has returned the probe's transport error (an Http error returned
\* before download_single_thread made any attempt) it has sent no GET, made
\* no plan, spawned no fetcher and allocated no temporary file, and the
\* destination is as the call found it.
C24_FailedProbeReturnsAtOnce ==
    /\ heads <= 1
    /\ (pc = "returned" /\ result = Failure("Http") /\ retry_count = 0) =>
          /\ heads = 1
          /\ gets = 0
          /\ range_headers = {}
          /\ chunk_ranges = <<>>
          /\ spawned = 0
          /\ fetchers = <<>>
          /\ ~abandoned
          /\ file = file0

\* The case of C24: the probe has failed and the call has returned, with a
\* destination that already held bytes.
C24_Witness ==
    /\ pc = "returned"
    /\ result = Failure("Http")
    /\ heads = 1
    /\ gets = 0
    /\ file0 # <<>>
    /\ file = file0

\* C25: the loop of check_update_for_celestial that locates the built jar
\* runs its body at most once for each entry of build/libs, whatever the
\* directory holds and also when the first entry is not the fat jar.
C25_JarLoopVisitsEachEntryOnce ==
    which = "check_update_for_celestial" =>
        \A n \in FileNames : visits[n] <= 1

=============================================================================
